---- MODULE Spec2Model ----
(* Model of read_data.py: the dispatcher main, the three dataset readers    *)
(* (read_orderbook_snapshots, read_trades, read_tick_size_changes), the     *)
(* disabled read_price_changes and get_statistics.                          *)
(*                                                                          *)
(* A file is a sequence of lines, the lines universal-newline text mode     *)
(* splits it into.  A line carries its raw kind ("json" for a line holding  *)
(* one JSON object, "value" for a line holding any other JSON value,        *)
(* "blank" for an empty or whitespace-only line, "garbage" for other text,  *)
(* "bytes" for a line holding a byte sequence that is not valid UTF-8), its *)
(* size in bytes nbytes, terminator included, and its terminator eol: "lf"  *)
(* for a line ended by "\n" or "\r\n", "cr" for a line ended by a lone      *)
(* "\r", "none" for a last line that the end of the file ends.  A "bytes"   *)
(* line carries the offset badAt of its first undecodable byte and the      *)
(* offset rejectAt of the byte at which the decoder rejects the sequence    *)
(* (badAt itself for an invalid start byte such as ff, nbytes for a         *)
(* multi-byte sequence the end of the file cuts short).  Every line        *)
(* carries the size in bytes lead of its first character (1 for an ASCII    *)
(* character, 2 to 4 for a multi-byte one); a "bytes" line with badAt = 0   *)
(* starts with the undecodable sequence and its lead is not read.  A JSON   *)
(* object                                                                   *)
(* line carries the decoded object as a record whose domain is the set of   *)
(* keys present.  Decimal texts are strings; float() and int() are tables from   *)
(* the texts that parse to their value in hundredths (floats are modelled   *)
(* as exact fixed-point numbers).  An asset identifier is a sequence of     *)
(* one-character strings.  Printed output is the sequence out of entries.   *)
EXTENDS Integers, Sequences, FiniteSets, TLC

VARIABLES args, dirExists, files, pc, pos, count, total_volume, side_counts,
          st, decoded, out, accesses, err

vars == <<args, dirExists, files, pc, pos, count, total_volume, side_counts,
          st, decoded, out, accesses, err>>

\* ---------------------------------------------------------------- bounds
MaxLines == 3
MaxDispatchLines == 2
MaxLimit == 2

\* ------------------------------------------------------ program constants
TruncLen == 20
TopLevels == 5
\* The number of bytes the text layer of open(path, 'r') decodes at a time.
ChunkSize == 8192

Datasets == {"snapshots", "trades", "tick_changes"}

Ellipsis == <<".", ".", ".">>

Min(a, b) == IF a < b THEN a ELSE b

\* ------------------------------------------------------------- text values
Digit == <<"0", "1", "2", "3", "4", "5", "6", "7", "8", "9">>

\* An identifier of n characters whose i-th character is the digit i mod 10.
Ident(n) == [i \in 1..n |-> Digit[(i % 10) + 1]]

\* float(text) in hundredths; a text outside the domain raises ValueError.
FloatOf == ("0.55" :> 55) @@ ("0.60" :> 60) @@ ("10" :> 1000) @@ ("5" :> 500)
           @@ ("50" :> 5000) @@ ("0" :> 0)

\* int(text); a text outside the domain raises ValueError.
IntOf == ("1700000000000" :> 1700000000) @@ ("1000" :> 1)

\* format_timestamp: milliseconds to seconds and a calendar rendering, the
\* text itself when int() fails.
format_timestamp(ts_str) ==
    IF ts_str \in DOMAIN IntOf
    THEN [calendar |-> TRUE, text |-> ts_str]
    ELSE [calendar |-> FALSE, text |-> ts_str]

\* asset_id[:20] followed by "..."
TruncateAssetId(asset_id) ==
    SubSeq(asset_id, 1, Min(TruncLen, Len(asset_id))) \o Ellipsis

\* `limit and count >= limit`: args.limit is <<>> for None, <<n>> for n.
LimitReached(limit, c) ==
    /\ limit # <<>>
    /\ limit[1] # 0
    /\ c >= limit[1]

\* json.loads(line) returns for a line holding any JSON value and raises
\* JSONDecodeError otherwise.
JsonLoadsOk(line) == line.raw \in {"json", "value"}

\* The decoded value is a dict; subscripting any other value by a field
\* name raises TypeError.
IsObject(line) == line.raw = "json"

\* The byte offset at which line i of a file starts.
RECURSIVE StartOf(_, _)
StartOf(lines, i) ==
    IF i = 1 THEN 0 ELSE StartOf(lines, i - 1) + lines[i - 1].nbytes

\* The text layer of open(path, 'r') reads the file chunk by chunk and
\* decodes each chunk as it is read: read k, counted from 0, returns the
\* bytes of chunk k, and read EofRead, the first after the last byte,
\* returns nothing and closes the decoder.
EofRead(lines) ==
    (StartOf(lines, Len(lines) + 1) + ChunkSize - 1) \div ChunkSize

\* The line is cut short by the end of the file inside a multi-byte
\* sequence: the decoder holds the sequence back until the file ends.
CutShort(lines, j) ==
    /\ lines[j].raw = "bytes"
    /\ j = Len(lines)
    /\ lines[j].rejectAt = lines[j].nbytes

\* The reads whose decoding raises UnicodeDecodeError: the read that
\* returns the byte at which the decoder rejects a sequence, and for a
\* sequence cut short by the end of the file the read that finds the end.
FailingReads(lines) ==
    {IF CutShort(lines, j) THEN EofRead(lines)
     ELSE (StartOf(lines, j) + lines[j].rejectAt) \div ChunkSize :
        j \in {k \in 1..Len(lines) : lines[k].raw = "bytes"}}

\* Everything after line i is one sequence cut short by the end of the
\* file, so no read after line i decodes a character.
OnlyHeldAfter(lines, i) ==
    /\ i + 1 = Len(lines)
    /\ CutShort(lines, i + 1)
    /\ lines[i + 1].badAt = 0

\* The offset in a line of the byte with which the decoder settles the
\* sequence the line starts with: the last byte of its first character,
\* or the byte at which an undecodable first sequence is rejected.
FirstSettled(line) ==
    IF line.raw = "bytes" /\ line.badAt = 0 THEN line.rejectAt ELSE line.lead - 1

\* The "\r" that ends line i is the last character decoded from the read
\* that returns it: no byte follows it in that read, or the bytes that
\* follow start a multi-byte sequence (a character or an undecodable
\* sequence) that the decoder cannot settle within that read and holds
\* back.
CrPending(lines, i) ==
    LET end == StartOf(lines, i) + lines[i].nbytes
        size == StartOf(lines, Len(lines) + 1)
        readEnd == Min(((end - 1) \div ChunkSize + 1) * ChunkSize, size)
    IN \/ end = readEnd
       \/ /\ i < Len(lines)
          /\ end + FirstSettled(lines[i + 1]) >= readEnd

\* The last read the fetch of line i makes.  A line is complete once its
\* terminator is decoded; a "\r" that is the last character decoded from
\* its read is held back, in case a "\n" follows, until a later read
\* decodes a character or finds the end of the file; a line without
\* terminator is complete at the end of the file.
LastRead(lines, i) ==
    LET end == StartOf(lines, i) + lines[i].nbytes
        last == (end - 1) \div ChunkSize
    IN IF lines[i].eol = "none" THEN EofRead(lines)
       ELSE IF lines[i].eol = "cr" /\ CrPending(lines, i)
            THEN IF OnlyHeldAfter(lines, i) THEN EofRead(lines) ELSE last + 1
       ELSE last

\* `for line in f` on a file opened in text mode: fetching line i makes
\* every read up to LastRead and raises UnicodeDecodeError when the
\* decoding of one of them does.
FetchRaises(lines, i) ==
    \E r \in FailingReads(lines) : r <= LastRead(lines, i)

\* Iterating the whole file, as get_statistics does, makes every read.
ScanRaises(lines) == FailingReads(lines) # {}

\* defaultdict(int) lookup
Lookup(d, k) == IF k \in DOMAIN d THEN d[k] ELSE 0

\* A variant of Bump that tallies the labels BUY and SELL only.
BumpKnownOnly(d, k) ==
    IF k \in {"BUY", "SELL"}
    THEN [x \in DOMAIN d \cup {k} |-> IF x = k THEN Lookup(d, k) + 1 ELSE d[x]]
    ELSE d

\* side_counts[k] += 1
Bump(d, k) == [x \in DOMAIN d \cup {k} |-> IF x = k THEN Lookup(d, k) + 1 ELSE d[x]]

RECURSIVE SumOver(_, _)
SumOver(d, S) ==
    IF S = {} THEN 0
    ELSE LET k == CHOOSE x \in S : TRUE IN d[k] + SumOver(d, S \ {k})

\* ------------------------------------------------------------- formatters
\* The exception a trade record raises while lines 98-106 format it, and
\* the number of print calls completed before it ("none": all six).
TradeError(t) ==
    IF "timestamp" \notin DOMAIN t THEN [exc |-> "KeyError", printed |-> 1]
    ELSE IF "asset_id" \notin DOMAIN t THEN [exc |-> "KeyError", printed |-> 2]
    ELSE IF ~({"side", "price", "size"} \subseteq DOMAIN t)
         THEN [exc |-> "KeyError", printed |-> 3]
    ELSE IF "fee_rate_bps" \notin DOMAIN t THEN [exc |-> "KeyError", printed |-> 4]
    ELSE IF t.fee_rate_bps \notin DOMAIN FloatOf
         THEN [exc |-> "ValueError", printed |-> 4]
    ELSE IF t.price \notin DOMAIN FloatOf \/ t.size \notin DOMAIN FloatOf
         THEN [exc |-> "ValueError", printed |-> 5]
    ELSE [exc |-> "none", printed |-> 6]

\* A variant of Notional that adds price and size.
NotionalSum(t) == FloatOf[t.price] + FloatOf[t.size]

\* notional = float(price) * float(size), in ten-thousandths
Notional(t) == FloatOf[t.price] * FloatOf[t.size]

\* What the trade block prints for record number n read from line src.
TradeEntry(t, n, src) ==
    [ds |-> "trades", tag |-> "record", n |-> n, src |-> src,
     time |-> format_timestamp(t.timestamp),
     asset |-> TruncateAssetId(t.asset_id),
     side |-> t.side, price |-> t.price, size |-> t.size,
     fee_bps |-> t.fee_rate_bps, notional |-> Notional(t)]

\* Lines 45-55: the BTC commentary of a snapshot (prices in hundredths).
BtcLine(s) ==
    IF "btc_price_current" \in DOMAIN s /\ s.btc_price_current > 0
    THEN LET current == s.btc_price_current
             hourly_open ==
                 IF "btc_price_hourly_open" \in DOMAIN s THEN s.btc_price_hourly_open
                 ELSE IF "btc_price_hourly" \in DOMAIN s THEN s.btc_price_hourly
                 ELSE 0
         IN IF hourly_open > 0
            THEN [kind |-> "candle", open |-> hourly_open, current |-> current,
                  change |-> current - hourly_open,
                  movement |-> IF current >= hourly_open THEN "UP" ELSE "DOWN"]
            ELSE [kind |-> "price", current |-> current]
    ELSE [kind |-> "none"]

\* levels[:5]
Top5(levels) == SubSeq(levels, 1, Min(TopLevels, Len(levels)))

\* The print calls of a block of levels (lines 57-60, 62-65): none for an
\* empty list, else the heading and one line per level shown.
BlockPrints(levels) == IF levels = <<>> THEN 0 ELSE 1 + Len(Top5(levels))

\* The levels shown whose price or size is absent.
BadLevels(levels) ==
    {i \in 1..Len(Top5(levels)) : ~({"price", "size"} \subseteq DOMAIN levels[i])}

\* The first bad level shown (only used when there is one).
FirstBadLevel(levels) ==
    CHOOSE i \in BadLevels(levels) : \A j \in BadLevels(levels) : i <= j

\* The exception a snapshot record raises while lines 39-65 format it, and
\* the number of print calls completed before it.
SnapshotError(s) ==
    IF "timestamp" \notin DOMAIN s THEN [exc |-> "KeyError", printed |-> 1]
    ELSE IF "asset_id" \notin DOMAIN s THEN [exc |-> "KeyError", printed |-> 2]
    ELSE IF "market" \notin DOMAIN s THEN [exc |-> "KeyError", printed |-> 3]
    ELSE LET b == IF BtcLine(s).kind = "none" THEN 0 ELSE 1 IN
         IF "bids" \notin DOMAIN s THEN [exc |-> "KeyError", printed |-> 4 + b]
         ELSE IF BadLevels(s.bids) # {}
              THEN [exc |-> "KeyError", printed |-> 4 + b + FirstBadLevel(s.bids)]
         ELSE IF "asks" \notin DOMAIN s
              THEN [exc |-> "KeyError", printed |-> 4 + b + BlockPrints(s.bids)]
         ELSE IF BadLevels(s.asks) # {}
              THEN [exc |-> "KeyError",
                    printed |-> 4 + b + BlockPrints(s.bids) + FirstBadLevel(s.asks)]
         ELSE [exc |-> "none",
               printed |-> 4 + b + BlockPrints(s.bids) + BlockPrints(s.asks)]

SnapshotEntry(s, n, src) ==
    [ds |-> "snapshots", tag |-> "record", n |-> n, src |-> src,
     time |-> format_timestamp(s.timestamp),
     asset |-> TruncateAssetId(s.asset_id),
     market |-> s.market, btc |-> BtcLine(s),
     bids |-> Top5(s.bids), asks |-> Top5(s.asks)]

\* The exception a tick-size change raises while lines 135-139 format it.
TickError(c) ==
    IF "timestamp" \notin DOMAIN c THEN [exc |-> "KeyError", printed |-> 1]
    ELSE IF "asset_id" \notin DOMAIN c THEN [exc |-> "KeyError", printed |-> 2]
    ELSE IF "market" \notin DOMAIN c THEN [exc |-> "KeyError", printed |-> 3]
    ELSE IF ~({"old_tick_size", "new_tick_size"} \subseteq DOMAIN c)
         THEN [exc |-> "KeyError", printed |-> 4]
    ELSE [exc |-> "none", printed |-> 5]

TickEntry(c, n, src) ==
    [ds |-> "tick_changes", tag |-> "record", n |-> n, src |-> src,
     time |-> format_timestamp(c.timestamp),
     asset |-> TruncateAssetId(c.asset_id),
     market |-> c.market, old |-> c.old_tick_size, new |-> c.new_tick_size]

\* The prints of a record whose formatting raised after `printed` calls.
PartialEntry(ds, n, src, printed) ==
    [ds |-> ds, tag |-> "partial", n |-> n, src |-> src, printed |-> printed]

\* ------------------------------------------------------------ get_statistics
\* size_mb to two decimals, in hundredths of a MiB (round half to even).
SizeMb(size_bytes) ==
    LET q == (size_bytes * 100) \div 1048576
        r == (size_bytes * 100) % 1048576
    IN IF r > 524288 \/ (r = 524288 /\ q % 2 = 1) THEN q + 1 ELSE q

RECURSIVE SizeBytes(_)
SizeBytes(lines) ==
    IF lines = <<>> THEN 0 ELSE Head(lines).nbytes + SizeBytes(Tail(lines))

StatOrder == <<"snapshots", "trades", "tick_changes">>

\* One iteration of the loop of lines 158-174.
StatEntry(name) ==
    IF files[name].exists
    THEN [ds |-> "stats", tag |-> "stat", name |-> name,
          messages |-> Len(files[name].lines),
          size_bytes |-> SizeBytes(files[name].lines),
          size_mb |-> SizeMb(SizeBytes(files[name].lines))]
    ELSE [ds |-> "stats", tag |-> "nodata", name |-> name]

\* The file accesses of one iteration: the existence test, then for an
\* existing file the open and, once its lines are counted, getsize.
StatAccess(name) ==
    IF ~files[name].exists THEN <<[op |-> "exists", target |-> name]>>
    ELSE IF ScanRaises(files[name].lines)
    THEN <<[op |-> "exists", target |-> name], [op |-> "open", target |-> name]>>
    ELSE <<[op |-> "exists", target |-> name], [op |-> "open", target |-> name],
           [op |-> "getsize", target |-> name]>>

\* The iterations of the loop of lines 158-174 whose line count raises.
StatFailures ==
    {i \in 1..3 : files[StatOrder[i]].exists /\ ScanRaises(files[StatOrder[i]].lines)}

\* The number of iterations that complete.
StatCompleted ==
    IF StatFailures = {} THEN 3
    ELSE (CHOOSE i \in StatFailures : \A j \in StatFailures : i <= j) - 1

RECURSIVE StatAccesses(_)
StatAccesses(k) ==
    IF k = 0 THEN <<>> ELSE StatAccesses(k - 1) \o StatAccess(StatOrder[k])

NoErr == [exc |-> "none", ds |-> "none", line |-> 0]

Selected(a, ds) ==
    CASE ds = "stats" -> a.stats \/ a.all
      [] ds = "snapshots" -> a.snapshots \/ a.all
      [] ds = "trades" -> a.trades \/ a.all
      [] ds = "tick_changes" -> a.tick_changes \/ a.all
      [] ds = "price_changes" -> a.price_changes

\* ------------------------------------------------------------------- main
\* A variant of Main that reports the absent directory and carries on.
MainNoReturn ==
    /\ pc = "main"
    /\ args' = IF ~(args.stats \/ args.snapshots \/ args.trades
                    \/ args.tick_changes \/ args.all)
               THEN [args EXCEPT !.stats = TRUE] ELSE args
    /\ accesses' = Append(accesses, [op |-> "exists", target |-> "data_dir"])
    /\ out' = IF ~dirExists
              THEN Append(out, [ds |-> "main", tag |-> "no_data_dir"]) ELSE out
    /\ pc' = "stats"
    /\ UNCHANGED <<dirExists, files, pos, count, total_volume, side_counts,
                   st, decoded, err>>

\* Lines 213-221: default to --stats, then the data directory check.
Main ==
    /\ pc = "main"
    /\ args' = IF ~(args.stats \/ args.snapshots \/ args.trades
                    \/ args.tick_changes \/ args.all)
               THEN [args EXCEPT !.stats = TRUE] ELSE args
    /\ accesses' = Append(accesses, [op |-> "exists", target |-> "data_dir"])
    /\ IF ~dirExists
       THEN /\ out' = Append(out, [ds |-> "main", tag |-> "no_data_dir"])
            /\ pc' = "done"
       ELSE /\ out' = out
            /\ pc' = "stats"
    /\ UNCHANGED <<dirExists, files, pos, count, total_volume, side_counts,
                   st, decoded, err>>

\* Lines 224-225 and get_statistics: the entries of the iterations that
\* complete; an iteration whose line count raises ends the run.
Statistics ==
    /\ pc = "stats"
    /\ IF ~Selected(args, "stats")
       THEN /\ pc' = "snapshots"
            /\ UNCHANGED <<out, accesses, err>>
       ELSE /\ out' = out \o <<[ds |-> "stats", tag |-> "header"]>>
                          \o [i \in 1..StatCompleted |-> StatEntry(StatOrder[i])]
            /\ accesses' = accesses \o <<[op |-> "call", target |-> "get_statistics"]>>
                           \o StatAccesses(IF StatCompleted = 3 THEN 3
                                           ELSE StatCompleted + 1)
            /\ IF StatCompleted = 3
               THEN pc' = "snapshots" /\ err' = err
               ELSE /\ pc' = "raised"
                    /\ err' = [exc |-> "UnicodeDecodeError", ds |-> "stats", line |-> 0]
    /\ UNCHANGED <<args, dirExists, files, pos, count, total_volume, side_counts,
                   st, decoded>>

\* Lines 233-237 and read_price_changes.
PriceChanges ==
    /\ pc = "price_changes"
    /\ IF Selected(args, "price_changes")
       THEN /\ out' = Append(out, [ds |-> "price_changes", tag |-> "disabled"])
            /\ accesses' = Append(accesses, [op |-> "call", target |-> "read_price_changes"])
       ELSE UNCHANGED <<out, accesses>>
    /\ pc' = "trades"
    /\ UNCHANGED <<args, dirExists, files, pos, count, total_volume, side_counts,
                   st, decoded, err>>


\* ------------------------------------------------- read_orderbook_snapshots
\* The call from main and the function up to its loop.
SnapshotsOpen ==
    /\ pc = "snapshots"
    /\ IF ~Selected(args, "snapshots")
       THEN /\ st' = [st EXCEPT !.snapshots = "skipped"]
            /\ pc' = "price_changes"
            /\ UNCHANGED <<out, accesses, pos, count, total_volume, side_counts>>
       ELSE IF ~files.snapshots.exists
            THEN /\ accesses' = accesses \o <<[op |-> "call", target |-> "read_orderbook_snapshots"],
                                              [op |-> "exists", target |-> "snapshots"]>>
                 /\ out' = Append(out, [ds |-> "snapshots", tag |-> "not_found"])
                 /\ st' = [st EXCEPT !.snapshots = "notfound"]
                 /\ pc' = "price_changes"
                 /\ UNCHANGED <<pos, count, total_volume, side_counts>>
            ELSE /\ accesses' = accesses \o <<[op |-> "call", target |-> "read_orderbook_snapshots"],
                                              [op |-> "exists", target |-> "snapshots"],
                                              [op |-> "open", target |-> "snapshots"]>>
                 /\ out' = Append(out, [ds |-> "snapshots", tag |-> "header"])
                 /\ st' = [st EXCEPT !.snapshots = "running"]
                 /\ count' = [count EXCEPT !.snapshots = 0]
                 /\ UNCHANGED <<total_volume, side_counts>>
                 /\ pos' = [pos EXCEPT !.snapshots = 0]
                 /\ pc' = "snapshots_loop"
    /\ UNCHANGED <<args, dirExists, files, decoded, err>>

\* One iteration of the loop: the fetch of the next line, which comes
\* before the limit test, json.loads and the prints, then the record.
SnapshotsLine ==
    /\ pc = "snapshots_loop"
    /\ pos.snapshots < Len(files.snapshots.lines)
    /\ FetchRaises(files.snapshots.lines, pos.snapshots + 1) \/ ~LimitReached(args.limit, count.snapshots)
    /\ LET line == files.snapshots.lines[pos.snapshots + 1] IN
         IF FetchRaises(files.snapshots.lines, pos.snapshots + 1)
         THEN /\ err' = [exc |-> "UnicodeDecodeError", ds |-> "snapshots", line |-> 0]
              /\ st' = [st EXCEPT !.snapshots = "raised"]
              /\ pc' = "raised"
              /\ UNCHANGED <<pos, decoded, out, count, total_volume, side_counts>>
         ELSE /\ pos' = [pos EXCEPT !.snapshots = @ + 1]
              /\ decoded' = [decoded EXCEPT !.snapshots = @ + 1]
              /\ IF ~JsonLoadsOk(line)
                 THEN /\ err' = [exc |-> "JSONDecodeError", ds |-> "snapshots",
                                 line |-> pos.snapshots + 1]
                      /\ st' = [st EXCEPT !.snapshots = "raised"]
                      /\ pc' = "raised"
                      /\ UNCHANGED <<out, count, total_volume, side_counts>>
                 ELSE IF ~IsObject(line)
                 THEN /\ out' = Append(out, PartialEntry("snapshots", count.snapshots + 1,
                                                         pos.snapshots + 1, 1))
                      /\ err' = [exc |-> "TypeError", ds |-> "snapshots",
                                 line |-> pos.snapshots + 1]
                      /\ st' = [st EXCEPT !.snapshots = "raised"]
                      /\ pc' = "raised"
                      /\ UNCHANGED <<count, total_volume, side_counts>>
                 ELSE IF SnapshotError(line.obj).exc # "none"
                      THEN /\ out' = Append(out, PartialEntry("snapshots", count.snapshots + 1,
                                              pos.snapshots + 1, SnapshotError(line.obj).printed))
                           /\ err' = [exc |-> SnapshotError(line.obj).exc, ds |-> "snapshots",
                                      line |-> pos.snapshots + 1]
                           /\ st' = [st EXCEPT !.snapshots = "raised"]
                           /\ pc' = "raised"
                           /\ UNCHANGED <<count, total_volume, side_counts>>
                      ELSE /\ out' = Append(out, SnapshotEntry(line.obj, count.snapshots + 1,
                                                         pos.snapshots + 1))
                           /\ count' = [count EXCEPT !.snapshots = @ + 1]
                           /\ UNCHANGED <<err, st, pc, total_volume, side_counts>>
    /\ UNCHANGED <<args, dirExists, files, accesses>>

\* Leaving the loop (end of file, or the break of the limit test on a fetched line) and the
\* final report.
SnapshotsEnd ==
    /\ pc = "snapshots_loop"
    /\ \/ pos.snapshots = Len(files.snapshots.lines)
       \/ /\ pos.snapshots < Len(files.snapshots.lines)
          /\ ~FetchRaises(files.snapshots.lines, pos.snapshots + 1)
          /\ LimitReached(args.limit, count.snapshots)
    /\ pos' = IF pos.snapshots < Len(files.snapshots.lines)
              THEN [pos EXCEPT !.snapshots = @ + 1] ELSE pos
    /\ out' = Append(out, [ds |-> "snapshots", tag |-> "total", count |-> count.snapshots])
    /\ st' = [st EXCEPT !.snapshots = "finished"]
    /\ pc' = "price_changes"
    /\ UNCHANGED <<args, dirExists, files, count, total_volume, side_counts, decoded, accesses, err>>

\* ------------------------------------------------- read_trades
\* The call from main and the function up to its loop.
TradesOpen ==
    /\ pc = "trades"
    /\ IF ~Selected(args, "trades")
       THEN /\ st' = [st EXCEPT !.trades = "skipped"]
            /\ pc' = "tick_changes"
            /\ UNCHANGED <<out, accesses, pos, count, total_volume, side_counts>>
       ELSE IF ~files.trades.exists
            THEN /\ accesses' = accesses \o <<[op |-> "call", target |-> "read_trades"],
                                              [op |-> "exists", target |-> "trades"]>>
                 /\ out' = Append(out, [ds |-> "trades", tag |-> "not_found"])
                 /\ st' = [st EXCEPT !.trades = "notfound"]
                 /\ pc' = "tick_changes"
                 /\ UNCHANGED <<pos, count, total_volume, side_counts>>
            ELSE /\ accesses' = accesses \o <<[op |-> "call", target |-> "read_trades"],
                                              [op |-> "exists", target |-> "trades"],
                                              [op |-> "open", target |-> "trades"]>>
                 /\ out' = Append(out, [ds |-> "trades", tag |-> "header"])
                 /\ st' = [st EXCEPT !.trades = "running"]
                 /\ count' = [count EXCEPT !.trades = 0]
                 /\ total_volume' = 0
                 /\ side_counts' = <<>>
                 /\ pos' = [pos EXCEPT !.trades = 0]
                 /\ pc' = "trades_loop"
    /\ UNCHANGED <<args, dirExists, files, decoded, err>>

\* One iteration of the loop: the fetch of the next line, which comes
\* before the limit test, json.loads and the prints, then the record.
TradesLine ==
    /\ pc = "trades_loop"
    /\ pos.trades < Len(files.trades.lines)
    /\ FetchRaises(files.trades.lines, pos.trades + 1) \/ ~LimitReached(args.limit, count.trades)
    /\ LET line == files.trades.lines[pos.trades + 1] IN
         IF FetchRaises(files.trades.lines, pos.trades + 1)
         THEN /\ err' = [exc |-> "UnicodeDecodeError", ds |-> "trades", line |-> 0]
              /\ st' = [st EXCEPT !.trades = "raised"]
              /\ pc' = "raised"
              /\ UNCHANGED <<pos, decoded, out, count, total_volume, side_counts>>
         ELSE /\ pos' = [pos EXCEPT !.trades = @ + 1]
              /\ decoded' = [decoded EXCEPT !.trades = @ + 1]
              /\ IF ~JsonLoadsOk(line)
                 THEN /\ err' = [exc |-> "JSONDecodeError", ds |-> "trades",
                                 line |-> pos.trades + 1]
                      /\ st' = [st EXCEPT !.trades = "raised"]
                      /\ pc' = "raised"
                      /\ UNCHANGED <<out, count, total_volume, side_counts>>
                 ELSE IF ~IsObject(line)
                 THEN /\ out' = Append(out, PartialEntry("trades", count.trades + 1,
                                                         pos.trades + 1, 1))
                      /\ err' = [exc |-> "TypeError", ds |-> "trades",
                                 line |-> pos.trades + 1]
                      /\ st' = [st EXCEPT !.trades = "raised"]
                      /\ pc' = "raised"
                      /\ UNCHANGED <<count, total_volume, side_counts>>
                 ELSE IF TradeError(line.obj).exc # "none"
                      THEN /\ out' = Append(out, PartialEntry("trades", count.trades + 1,
                                              pos.trades + 1, TradeError(line.obj).printed))
                           /\ err' = [exc |-> TradeError(line.obj).exc, ds |-> "trades",
                                      line |-> pos.trades + 1]
                           /\ st' = [st EXCEPT !.trades = "raised"]
                           /\ pc' = "raised"
                           /\ UNCHANGED <<count, total_volume, side_counts>>
                      ELSE /\ out' = Append(out, TradeEntry(line.obj, count.trades + 1,
                                                         pos.trades + 1))
                           /\ count' = [count EXCEPT !.trades = @ + 1]
                           /\ total_volume' = total_volume + Notional(line.obj)
                           /\ side_counts' = Bump(side_counts, line.obj.side)
                           /\ UNCHANGED <<err, st, pc>>
    /\ UNCHANGED <<args, dirExists, files, accesses>>

\* A variant of TradesEnd that prints the BUY and SELL counts unguarded.
TradesEndAlwaysSides ==
    /\ pc = "trades_loop"
    /\ \/ pos.trades = Len(files.trades.lines)
       \/ /\ pos.trades < Len(files.trades.lines)
          /\ ~FetchRaises(files.trades.lines, pos.trades + 1)
          /\ LimitReached(args.limit, count.trades)
    /\ pos' = IF pos.trades < Len(files.trades.lines)
              THEN [pos EXCEPT !.trades = @ + 1] ELSE pos
    /\ out' = out \o <<[ds |-> "trades", tag |-> "total", count |-> count.trades,
                         volume |-> total_volume],
                       [ds |-> "trades", tag |-> "sides",
                        buy |-> Lookup(side_counts, "BUY"),
                        sell |-> Lookup(side_counts, "SELL")]>>
    /\ side_counts' = [k \in DOMAIN side_counts \cup {"BUY", "SELL"} |->
                          Lookup(side_counts, k)]
    /\ st' = [st EXCEPT !.trades = "finished"]
    /\ pc' = "tick_changes"
    /\ UNCHANGED <<args, dirExists, files, count, total_volume, decoded, accesses, err>>

\* Leaving the loop (end of file, or the break of the limit test on a fetched line) and the
\* final report.
TradesEnd ==
    /\ pc = "trades_loop"
    /\ \/ pos.trades = Len(files.trades.lines)
       \/ /\ pos.trades < Len(files.trades.lines)
          /\ ~FetchRaises(files.trades.lines, pos.trades + 1)
          /\ LimitReached(args.limit, count.trades)
    /\ pos' = IF pos.trades < Len(files.trades.lines)
              THEN [pos EXCEPT !.trades = @ + 1] ELSE pos
    /\ out' = out \o <<[ds |-> "trades", tag |-> "total", count |-> count.trades,
                         volume |-> total_volume]>>
                   \o (IF DOMAIN side_counts # {}
                       THEN <<[ds |-> "trades", tag |-> "sides",
                               buy |-> Lookup(side_counts, "BUY"),
                               sell |-> Lookup(side_counts, "SELL")]>>
                       ELSE <<>>)
    /\ side_counts' = IF DOMAIN side_counts # {}
                      THEN [k \in DOMAIN side_counts \cup {"BUY", "SELL"} |->
                               Lookup(side_counts, k)]
                      ELSE side_counts
    /\ st' = [st EXCEPT !.trades = "finished"]
    /\ pc' = "tick_changes"
    /\ UNCHANGED <<args, dirExists, files, count, total_volume, decoded, accesses, err>>

\* ------------------------------------------------- read_tick_size_changes
\* The call from main and the function up to its loop.
TickSizeChangesOpen ==
    /\ pc = "tick_changes"
    /\ IF ~Selected(args, "tick_changes")
       THEN /\ st' = [st EXCEPT !.tick_changes = "skipped"]
            /\ pc' = "done"
            /\ UNCHANGED <<out, accesses, pos, count, total_volume, side_counts>>
       ELSE IF ~files.tick_changes.exists
            THEN /\ accesses' = accesses \o <<[op |-> "call", target |-> "read_tick_size_changes"],
                                              [op |-> "exists", target |-> "tick_changes"]>>
                 /\ out' = Append(out, [ds |-> "tick_changes", tag |-> "not_found"])
                 /\ st' = [st EXCEPT !.tick_changes = "notfound"]
                 /\ pc' = "done"
                 /\ UNCHANGED <<pos, count, total_volume, side_counts>>
            ELSE /\ accesses' = accesses \o <<[op |-> "call", target |-> "read_tick_size_changes"],
                                              [op |-> "exists", target |-> "tick_changes"],
                                              [op |-> "open", target |-> "tick_changes"]>>
                 /\ out' = Append(out, [ds |-> "tick_changes", tag |-> "header"])
                 /\ st' = [st EXCEPT !.tick_changes = "running"]
                 /\ count' = [count EXCEPT !.tick_changes = 0]
                 /\ UNCHANGED <<total_volume, side_counts>>
                 /\ pos' = [pos EXCEPT !.tick_changes = 0]
                 /\ pc' = "tick_changes_loop"
    /\ UNCHANGED <<args, dirExists, files, decoded, err>>

\* One iteration of the loop: the fetch of the next line, which comes
\* before json.loads and the prints, then the record.
TickSizeChangesLine ==
    /\ pc = "tick_changes_loop"
    /\ pos.tick_changes < Len(files.tick_changes.lines)
    /\ LET line == files.tick_changes.lines[pos.tick_changes + 1] IN
         IF FetchRaises(files.tick_changes.lines, pos.tick_changes + 1)
         THEN /\ err' = [exc |-> "UnicodeDecodeError", ds |-> "tick_changes", line |-> 0]
              /\ st' = [st EXCEPT !.tick_changes = "raised"]
              /\ pc' = "raised"
              /\ UNCHANGED <<pos, decoded, out, count, total_volume, side_counts>>
         ELSE /\ pos' = [pos EXCEPT !.tick_changes = @ + 1]
              /\ decoded' = [decoded EXCEPT !.tick_changes = @ + 1]
              /\ IF ~JsonLoadsOk(line)
                 THEN /\ err' = [exc |-> "JSONDecodeError", ds |-> "tick_changes",
                                 line |-> pos.tick_changes + 1]
                      /\ st' = [st EXCEPT !.tick_changes = "raised"]
                      /\ pc' = "raised"
                      /\ UNCHANGED <<out, count, total_volume, side_counts>>
                 ELSE IF ~IsObject(line)
                 THEN /\ out' = Append(out, PartialEntry("tick_changes", count.tick_changes + 1,
                                                         pos.tick_changes + 1, 1))
                      /\ err' = [exc |-> "TypeError", ds |-> "tick_changes",
                                 line |-> pos.tick_changes + 1]
                      /\ st' = [st EXCEPT !.tick_changes = "raised"]
                      /\ pc' = "raised"
                      /\ UNCHANGED <<count, total_volume, side_counts>>
                 ELSE IF TickError(line.obj).exc # "none"
                      THEN /\ out' = Append(out, PartialEntry("tick_changes", count.tick_changes + 1,
                                              pos.tick_changes + 1, TickError(line.obj).printed))
                           /\ err' = [exc |-> TickError(line.obj).exc, ds |-> "tick_changes",
                                      line |-> pos.tick_changes + 1]
                           /\ st' = [st EXCEPT !.tick_changes = "raised"]
                           /\ pc' = "raised"
                           /\ UNCHANGED <<count, total_volume, side_counts>>
                      ELSE /\ out' = Append(out, TickEntry(line.obj, count.tick_changes + 1,
                                                         pos.tick_changes + 1))
                           /\ count' = [count EXCEPT !.tick_changes = @ + 1]
                           /\ UNCHANGED <<err, st, pc, total_volume, side_counts>>
    /\ UNCHANGED <<args, dirExists, files, accesses>>

\* Leaving the loop (end of file) and the
\* final report.
TickSizeChangesEnd ==
    /\ pc = "tick_changes_loop"
    /\ pos.tick_changes = Len(files.tick_changes.lines)
    /\ pos' = pos
    /\ out' = Append(out, [ds |-> "tick_changes", tag |-> "total", count |-> count.tick_changes])
    /\ st' = [st EXCEPT !.tick_changes = "finished"]
    /\ pc' = "done"
    /\ UNCHANGED <<args, dirExists, files, count, total_volume, side_counts, decoded, accesses, err>>

\* ----------------------------------------------------------------- inputs
Limits == {<<>>} \cup {<<n>> : n \in (-1)..MaxLimit}

Flags == [stats : BOOLEAN, snapshots : BOOLEAN, price_changes : BOOLEAN,
          trades : BOOLEAN, tick_changes : BOOLEAN, all : BOOLEAN]

WithLimit(f, l) ==
    [stats |-> f.stats, snapshots |-> f.snapshots, price_changes |-> f.price_changes,
     trades |-> f.trades, tick_changes |-> f.tick_changes, all |-> f.all, limit |-> l]

NoFlags == [stats |-> FALSE, snapshots |-> FALSE, price_changes |-> FALSE,
            trades |-> FALSE, tick_changes |-> FALSE, all |-> FALSE]

JsonLine(obj) == [raw |-> "json", nbytes |-> 120, eol |-> "lf", lead |-> 1, obj |-> obj]
\* A JSON object padded with spaces to fill one chunk of the text layer.
LongJsonLine(obj) == [raw |-> "json", nbytes |-> ChunkSize, eol |-> "lf", lead |-> 1, obj |-> obj]
\* The same, ended by "\r": the terminator is the last byte of its chunk.
CrLongJsonLine(obj) == [raw |-> "json", nbytes |-> ChunkSize, eol |-> "cr", lead |-> 1, obj |-> obj]
\* The same, one byte shorter: the first byte of the next line is the last
\* byte of the chunk.
CrNearLongJsonLine(obj) ==
    [raw |-> "json", nbytes |-> ChunkSize - 1, eol |-> "cr", lead |-> 1, obj |-> obj]
\* A JSON object ended by "\r" within its chunk.
CrJsonLine(obj) == [raw |-> "json", nbytes |-> 120, eol |-> "cr", lead |-> 1, obj |-> obj]
\* A JSON object that the end of the file ends.
LastJsonLine(obj) == [raw |-> "json", nbytes |-> 119, eol |-> "none", lead |-> 1, obj |-> obj]
\* A line such as 42, [1,2], "x" or null.
ValueLine == [raw |-> "value", nbytes |-> 3, eol |-> "lf", lead |-> 1]
\* A line holding one space.
BlankLine == [raw |-> "blank", nbytes |-> 2, eol |-> "lf", lead |-> 1]
\* Text that is not JSON and starts with a three-byte character.
GarbageLine == [raw |-> "garbage", nbytes |-> 9, eol |-> "lf", lead |-> 3]
\* The bytes ff fe 20 62 61 64 and a newline.
BytesLine == [raw |-> "bytes", nbytes |-> 7, eol |-> "lf", lead |-> 1, badAt |-> 0, rejectAt |-> 0]
\* The bytes 78 e2 82 at the end of the file.
CutLine == [raw |-> "bytes", nbytes |-> 3, eol |-> "none", lead |-> 1, badAt |-> 1, rejectAt |-> 3]
\* The bytes e2 82 at the end of the file.
HeldLine == [raw |-> "bytes", nbytes |-> 2, eol |-> "none", lead |-> 1, badAt |-> 0, rejectAt |-> 2]

\* The lines that can only end a file, obj being a well-formed record.
EndLines(obj) == {LastJsonLine(obj), CutLine, HeldLine}

Trade(side, price, size, id) ==
    [timestamp |-> "1700000000000", asset_id |-> id, side |-> side,
     price |-> price, size |-> size, fee_rate_bps |-> "50"]

TradeNoSide ==
    [timestamp |-> "1700000000000", asset_id |-> Ident(6),
     price |-> "0.55", size |-> "10", fee_rate_bps |-> "50"]

TradeLines ==
    {JsonLine(Trade("BUY", "0.55", "10", Ident(22))),
     JsonLine(Trade("SELL", "0.60", "5", Ident(6))),
     JsonLine(Trade("HOLD", "0.55", "5", Ident(20))),
     JsonLine(Trade("BUY", "abc", "10", Ident(6))),
     LongJsonLine(Trade("SELL", "0.60", "5", Ident(6))),
     CrLongJsonLine(Trade("BUY", "0.55", "10", Ident(22))),
     CrJsonLine(Trade("SELL", "0.60", "5", Ident(6))),
     CrNearLongJsonLine(Trade("SELL", "0.60", "5", Ident(6))),
     JsonLine(TradeNoSide), ValueLine, BlankLine, GarbageLine, BytesLine}

Level(price, size) == [price |-> price, size |-> size]

SnapshotFull ==
    [timestamp |-> "1700000000000", asset_id |-> Ident(21), market |-> "m1",
     bids |-> [i \in 1..6 |-> Level("0.55", "10")], asks |-> <<>>,
     btc_price_current |-> 6000000, btc_price_hourly |-> 6100000]

SnapshotPlain ==
    [timestamp |-> "yesterday", asset_id |-> Ident(0), market |-> "m2",
     bids |-> <<>>, asks |-> <<Level("0.60", "5")>>]

SnapshotNoBids ==
    [timestamp |-> "1000", asset_id |-> Ident(6), market |-> "m2",
     asks |-> <<Level("0.60", "5")>>]

\* The second bid shown has no price; a BTC price without an hourly open.
SnapshotBadBid ==
    [timestamp |-> "1000", asset_id |-> Ident(6), market |-> "m2",
     bids |-> <<Level("0.55", "10"), [size |-> "10"]>>,
     asks |-> <<Level("0.60", "5")>>, btc_price_current |-> 6000000]

SnapshotNoAsks ==
    [timestamp |-> "1000", asset_id |-> Ident(6), market |-> "m2",
     bids |-> [i \in 1..6 |-> Level("0.55", "10")]]

SnapshotLines ==
    {JsonLine(SnapshotFull), JsonLine(SnapshotPlain), LongJsonLine(SnapshotPlain),
     CrLongJsonLine(SnapshotFull), CrJsonLine(SnapshotPlain),
     CrNearLongJsonLine(SnapshotPlain),
     JsonLine(SnapshotNoBids), JsonLine(SnapshotBadBid), JsonLine(SnapshotNoAsks),
     ValueLine, BlankLine, GarbageLine, BytesLine}

Tick(id) ==
    [timestamp |-> "1700000000000", asset_id |-> id, market |-> "m1",
     old_tick_size |-> "0.01", new_tick_size |-> "0.001"]

TickNoMarket ==
    [timestamp |-> "1700000000000", asset_id |-> Ident(6),
     old_tick_size |-> "0.01", new_tick_size |-> "0.001"]

TickLines ==
    {JsonLine(Tick(Ident(25))), JsonLine(Tick(Ident(19))),
     LongJsonLine(Tick(Ident(19))), CrLongJsonLine(Tick(Ident(25))),
     CrJsonLine(Tick(Ident(19))), CrNearLongJsonLine(Tick(Ident(19))),
     JsonLine(TickNoMarket),
     ValueLine, BlankLine, GarbageLine, BytesLine}

SeqsUpTo(S, n) == UNION {[1..k -> S] : k \in 0..n}

Absent == [exists |-> FALSE, lines |-> <<>>]

\* Files of at most n lines drawn from S, the last possibly from E.
FilesOver(S, E, n) ==
    {[exists |-> TRUE, lines |-> l] :
        l \in {x \in SeqsUpTo(S \cup E, n) :
                  \A i \in 1..(Len(x) - 1) : x[i] \in S}}

\* Files of at most n lines whose lines are copies of good, possibly ended
\* by one line that is not JSON or not text.
PlainFiles(good, n) ==
    {[exists |-> TRUE, lines |-> l] :
        l \in {x \in SeqsUpTo({good, GarbageLine, BytesLine}, n) :
                  \A i \in 1..(Len(x) - 1) : x[i] = good}}

InitState(a, d, f) ==
    /\ args = a
    /\ dirExists = d
    /\ files = f
    /\ pc = "main"
    /\ pos = [ds \in Datasets |-> 0]
    /\ count = [ds \in Datasets |-> 0]
    /\ total_volume = 0
    /\ side_counts = <<>>
    /\ st = [ds \in Datasets |-> "pending"]
    /\ decoded = [ds \in Datasets |-> 0]
    /\ out = <<>>
    /\ accesses = <<>>
    /\ err = NoErr

\* No data directory: every combination of flags and limit.
InitNoDir ==
    \E f \in Flags, l \in Limits :
        InitState(WithLimit(f, l), FALSE, [ds \in Datasets |-> Absent])

\* A data directory, every combination of flags and limit, and for each
\* dataset no file or a plain file.
InitDispatch ==
    \E f \in Flags, l \in Limits,
       fs \in {Absent} \cup PlainFiles(JsonLine(SnapshotPlain), MaxDispatchLines),
       ft \in {Absent} \cup PlainFiles(JsonLine(Trade("SELL", "0.60", "5", Ident(6))),
                                       MaxDispatchLines),
       fk \in {Absent} \cup PlainFiles(JsonLine(Tick(Ident(19))), MaxDispatchLines) :
        InitState(WithLimit(f, l), TRUE,
                  [snapshots |-> fs, trades |-> ft, tick_changes |-> fk])

\* One dataset selected, its file drawn from all sequences of its lines.
InitSnapshotsPass ==
    \E l \in Limits, fs \in FilesOver(SnapshotLines, EndLines(SnapshotPlain), MaxLines) :
        InitState(WithLimit([NoFlags EXCEPT !.snapshots = TRUE], l), TRUE,
                  [snapshots |-> fs, trades |-> Absent, tick_changes |-> Absent])

InitTradesPass ==
    \E l \in Limits, ft \in FilesOver(TradeLines, EndLines(Trade("SELL", "0.60", "5", Ident(6))), MaxLines) :
        InitState(WithLimit([NoFlags EXCEPT !.trades = TRUE], l), TRUE,
                  [snapshots |-> Absent, trades |-> ft, tick_changes |-> Absent])

InitTickPass ==
    \E l \in Limits, fk \in FilesOver(TickLines, EndLines(Tick(Ident(19))), MaxLines) :
        InitState(WithLimit([NoFlags EXCEPT !.tick_changes = TRUE], l), TRUE,
                  [snapshots |-> Absent, trades |-> Absent, tick_changes |-> fk])

Init ==
    \/ InitNoDir
    \/ InitDispatch
    \/ InitSnapshotsPass
    \/ InitTradesPass
    \/ InitTickPass

Next ==
    \/ Main
    \/ Statistics
    \/ SnapshotsOpen
    \/ SnapshotsLine
    \/ SnapshotsEnd
    \/ PriceChanges
    \/ TradesOpen
    \/ TradesLine
    \/ TradesEnd
    \/ TickSizeChangesOpen
    \/ TickSizeChangesLine
    \/ TickSizeChangesEnd

Spec == Init /\ [][Next]_vars

\* ------------------------------------------------------------ properties
IsRecordOf(ds, e) == e.ds = ds /\ e.tag = "record"

\* The records displayed so far for a dataset, in print order.
RecordsOf(ds) == SelectSeq(out, LAMBDA e : IsRecordOf(ds, e))

EntriesOf(ds, tag) == SelectSeq(out, LAMBDA e : e.ds = ds /\ e.tag = tag)

\* A line that decodes and carries every field its formatter reads.
WellFormed(ds, line) ==
    /\ line.raw = "json"
    /\ CASE ds = "snapshots" ->
              /\ {"timestamp", "asset_id", "market", "bids", "asks"}
                     \subseteq DOMAIN line.obj
              /\ BadLevels(line.obj.bids) = {}
              /\ BadLevels(line.obj.asks) = {}
         [] ds = "trades" ->
              /\ {"timestamp", "asset_id", "side", "price", "size", "fee_rate_bps"}
                     \subseteq DOMAIN line.obj
              /\ {line.obj.price, line.obj.size, line.obj.fee_rate_bps}
                     \subseteq DOMAIN FloatOf
         [] ds = "tick_changes" ->
              {"timestamp", "asset_id", "market", "old_tick_size", "new_tick_size"}
                     \subseteq DOMAIN line.obj

\* The number of leading well-formed lines of a dataset's file.
WellFormedPrefix(ds) ==
    LET L == files[ds].lines
    IN Cardinality({k \in 1..Len(L) : \A i \in 1..k : WellFormed(ds, L[i])})

PassOver(ds) == st[ds] \in {"finished", "raised"}

Terminated == pc \in {"done", "raised"}

\* C1: with a limit N, 0 <= N <= M, on a file whose first M lines are
\* well-formed records, a pass of read_orderbook_snapshots or read_trades
\* ends normally having displayed exactly lines 1..N, decoded no further
\* line and reported a total of N.
C1_RecordLimit ==
    \A ds \in {"snapshots", "trades"} :
        (/\ PassOver(ds)
         /\ args.limit # <<>>
         /\ args.limit[1] >= 0
         /\ args.limit[1] <= WellFormedPrefix(ds))
        => /\ st[ds] = "finished"
           /\ Len(RecordsOf(ds)) = args.limit[1]
           /\ \A i \in 1..Len(RecordsOf(ds)) : RecordsOf(ds)[i].src = i
           /\ decoded[ds] <= args.limit[1]
           /\ EntriesOf(ds, "total")[1].count = args.limit[1]

\* C2: when main ends, every selected dataset has been processed and
\* reported, whether or not an earlier dataset raised an error.
C2_ErrorIsolation ==
    (Terminated /\ dirExists)
    => \A ds \in Datasets :
          Selected(args, ds) => st[ds] \in {"finished", "notfound", "raised"}

\* C3: a file made of well-formed records and blank lines, read without a
\* limit, yields one record per non-blank line in file order and no error.
C3_BlankLinesSkipped ==
    \A ds \in Datasets :
        LET L == files[ds].lines
            NonBlank == {i \in 1..Len(L) : L[i].raw # "blank"}
        IN (/\ PassOver(ds)
            /\ args.limit = <<>>
            /\ \A i \in NonBlank : WellFormed(ds, L[i]))
           => /\ st[ds] = "finished"
              /\ Len(RecordsOf(ds)) = Cardinality(NonBlank)
              /\ \A i \in 1..Len(RecordsOf(ds)) : RecordsOf(ds)[i].src \in NonBlank

\* C4: with a limit N >= 1 at most N records of each dataset are
\* displayed, each dataset numbering its records from 1.
C4_LimitPerDataset ==
    (args.limit # <<>> /\ args.limit[1] >= 1)
    => \A ds \in Datasets :
          /\ Len(RecordsOf(ds)) <= args.limit[1]
          /\ \A i \in 1..Len(RecordsOf(ds)) : RecordsOf(ds)[i].n = i

\* C5: the per-side counts of read_trades, over every label seen, add up
\* to the trade count after every record folded in and after the report.
C5_SideCountConservation ==
    SumOver(side_counts, DOMAIN side_counts) = count.trades

\* A finished pass that folded in several trades, one with another label.
W_C5_OtherLabelCounted ==
    /\ st.trades = "finished"
    /\ count.trades >= 2
    /\ "HOLD" \in DOMAIN side_counts
    /\ "BUY" \in DOMAIN side_counts

\* float(price) * float(size) summed over the first k lines of a file.
RECURSIVE VolumeOfPrefix(_, _)
VolumeOfPrefix(L, k) ==
    IF k = 0 THEN 0
    ELSE VolumeOfPrefix(L, k - 1) + FloatOf[L[k].obj.price] * FloatOf[L[k].obj.size]

\* C10: in every step of a pass of read_trades the count does not decrease,
\* total_volume is the sum of price*size over the first count lines of the
\* file, which are the records displayed, and a step that raises leaves
\* count, total_volume and the per-side counts as they were.
C10_RunningAggregate ==
    [][/\ count'.trades >= count.trades
       /\ total_volume' = VolumeOfPrefix(files.trades.lines, count'.trades)
       /\ Len(RecordsOf("trades"))' = count'.trades
       /\ (pc = "trades_loop" /\ pc' = "raised")
          => /\ count'.trades = count.trades
             /\ total_volume' = total_volume
             /\ side_counts' = side_counts]_vars

\* A pass aborted by a price that is not a number after a BUY of
\* 0.55 x 10 and a SELL of 0.60 x 5 were folded in.
W_C10_AbortAfterTwo ==
    /\ pc = "raised"
    /\ err.ds = "trades"
    /\ err.exc = "ValueError"
    /\ count.trades = 2
    /\ total_volume = 85000
    /\ Len(EntriesOf("trades", "partial")) = 1

\* C6 as stated: the final report of a finished pass of read_trades always
\* holds the total count, the total volume, a BUY count and a SELL count.
C6_ReportAlwaysHasSides ==
    st.trades = "finished"
    => /\ Len(EntriesOf("trades", "total")) = 1
       /\ Len(EntriesOf("trades", "sides")) = 1

\* C6 amended: the final report holds the total count and the total
\* volume; it holds the BUY and SELL counts (0 for a side never seen)
\* exactly when at least one trade was folded in.
C6_FinalReport ==
    st.trades = "finished"
    => LET L == files.trades.lines
           total == EntriesOf("trades", "total")
           sides == EntriesOf("trades", "sides")
           Shown(side) == {i \in 1..Len(RecordsOf("trades")) : L[i].obj.side = side}
       IN /\ Len(total) = 1
          /\ total[1].count = Len(RecordsOf("trades"))
          /\ total[1].volume = VolumeOfPrefix(L, Len(RecordsOf("trades")))
          /\ IF Len(RecordsOf("trades")) > 0
             THEN /\ Len(sides) = 1
                  /\ sides[1].buy = Cardinality(Shown("BUY"))
                  /\ sides[1].sell = Cardinality(Shown("SELL"))
             ELSE Len(sides) = 0

\* A finished pass whose trades all carry a label other than BUY and SELL.
W_C6_OnlyOtherLabels ==
    /\ st.trades = "finished"
    /\ count.trades >= 1
    /\ Len(EntriesOf("trades", "sides")) = 1
    /\ EntriesOf("trades", "sides")[1].buy = 0
    /\ EntriesOf("trades", "sides")[1].sell = 0

RECURSIVE BytesUpTo(_, _)
BytesUpTo(L, k) == IF k = 0 THEN 0 ELSE BytesUpTo(L, k - 1) + L[k].nbytes

\* C7: once main is past get_statistics, each existing file has exactly
\* one entry giving its number of lines, decodable or not, and its size,
\* and each absent file exactly one 'no data yet' entry.
C7_Statistics ==
    (pc \notin {"main", "stats"} /\ dirExists /\ Selected(args, "stats"))
    => \A ds \in Datasets :
          LET stat == SelectSeq(out, LAMBDA e : e.ds = "stats" /\ e.tag = "stat"
                                                /\ e.name = ds)
              nodata == SelectSeq(out, LAMBDA e : e.ds = "stats" /\ e.tag = "nodata"
                                                  /\ e.name = ds)
          IN IF files[ds].exists
             THEN /\ Len(stat) = 1
                  /\ Len(nodata) = 0
                  /\ stat[1].messages = Len(files[ds].lines)
                  /\ stat[1].size_bytes = BytesUpTo(files[ds].lines, Len(files[ds].lines))
             ELSE Len(stat) = 0 /\ Len(nodata) = 1

\* C8: every displayed asset identifier longer than 20 characters is its
\* first 20 characters and the ellipsis; a shorter one is shown unchanged.
C8_Truncation ==
    \A i \in DOMAIN out :
        out[i].tag = "record"
        => LET id == files[out[i].ds].lines[out[i].src].obj.asset_id
           IN out[i].asset = IF Len(id) > TruncLen
                             THEN SubSeq(id, 1, TruncLen) \o Ellipsis
                             ELSE id

\* C9: without a data directory main prints the top-level error and
\* returns: no dataset function is called, no dataset file opened or
\* tested for existence, whatever the flags and the limit.
C9_AbsentDataDir ==
    (~dirExists /\ pc # "main")
    => /\ pc = "done"
       /\ out = <<[ds |-> "main", tag |-> "no_data_dir"]>>
       /\ accesses = <<[op |-> "exists", target |-> "data_dir"]>>
       /\ \A ds \in Datasets : st[ds] = "pending"

\* main has returned for --all --stats --price-changes --limit 1 without
\* a data directory.
W_C9_AllFlagsNoDir ==
    /\ ~dirExists
    /\ pc = "done"
    /\ args.all /\ args.stats /\ args.price_changes /\ args.trades
    /\ args.limit = <<1>>

====
